---- MODULE Spec2Model ----
(***************************************************************************)
(* CoreLedger: the ledger core (src/src/ledger.py, src/src/models/*.py)    *)
(* over its SQLite store.                                                  *)
(*                                                                         *)
(* Store facts the model rests on (src/src/models/database.py):            *)
(*  - accounts.id is declared TEXT PRIMARY KEY (line 27).  It is not an    *)
(*    alias of the rowid, so an INSERT that names only (name, balance)     *)
(*    (account.py:129-136) stores id = NULL; cursor.lastrowid, which       *)
(*    create_account returns, is the rowid.  "WHERE id = ?" never matches  *)
(*    a NULL id.  Rows written with an explicit id (database.py:205,       *)
(*    examples/triggers_demo.py:33) are found by that id.                  *)
(*  - accounts.name carries no UNIQUE constraint (line 28).                *)
(*  - execute_insert commits (line 82); execute_query does not (70-76).    *)
(*  - DatabaseManager defines no transaction(); ledger.py:146,186,232 call *)
(*    it.  The wrapper is modelled from the specification (atomic unit).   *)
(***************************************************************************)
EXTENDS Integers, Sequences, FiniteSets, TLC

\* ---------------------------------------------------------------- bounds
MaxRows == 3        \* account rows ever present at once
MaxTx == 2          \* transaction rows written
MaxTime == 1        \* seconds the clock advances (CURRENT_TIMESTAMP)
NumThreads == 2     \* threads calling the ledger concurrently

\* ------------------------------------------------------------- constants
None == 0           \* SQL NULL / Python None in an id position (ids are > 0)
SeedIdA == 999      \* explicit ids of rows written by a direct INSERT
SeedIdB == 1000

\* --------------------------------------------------------------- Decimal
\* A decimal.Decimal is coefficient c and number of fractional digits e:
\* its value is c / 10^e.  MaxDigits bounds e for the inputs used here.
MaxDigits == 3

RECURSIVE Pow10(_)
Pow10(n) == IF n <= 0 THEN 1 ELSE 10 * Pow10(n - 1)

Dec(c, e) == [c |-> c, e |-> e]

\* value in thousandths, used to compare decimals of different exponent
Mills(d) == d.c * Pow10(MaxDigits - d.e)

Abs(n) == IF n < 0 THEN -n ELSE n
Sign(n) == IF n < 0 THEN -1 ELSE 1
Max(a, b) == IF a >= b THEN a ELSE b

\* Decimal.__add__ / __sub__: exact, result keeps the larger digit count
DecAdd(a, b) ==
    LET e == Max(a.e, b.e)
    IN  Dec(a.c * Pow10(e - a.e) + b.c * Pow10(e - b.e), e)
DecSub(a, b) ==
    LET e == Max(a.e, b.e)
    IN  Dec(a.c * Pow10(e - a.e) - b.c * Pow10(e - b.e), e)

\* Decimal.quantize(Decimal('0.01'), rounding=ROUND_HALF_UP)
quantize(d) ==
    IF d.e <= 2
    THEN Dec(d.c * Pow10(2 - d.e), 2)
    ELSE LET p == Pow10(d.e - 2)
         IN  Dec(Sign(d.c) * ((Abs(d.c) + (p \div 2)) \div p), 2)

\* DatabaseManager.decimal_to_str / str_to_decimal: str(Decimal) prints the
\* coefficient with its e fractional digits (no exponent notation in this
\* range); the TEXT value is modelled as the pair <<c, e>> it spells.
decimal_to_str(d) == <<d.c, d.e>>
str_to_decimal(s) == Dec(s[1], s[2])

\* CAST(text AS REAL) as used by the triggers: the numeric value
CastReal(s) == s[1] * Pow10(MaxDigits - s[2])

ZeroDec == Dec(0, 2)

\* ------------------------------------------------------------ the inputs
\* amounts of deposit, withdraw, transfer: "0.00", "0.005"
AmountInputs == {Dec(0, 2), Dec(5, 3)}
\* initial balances of create_account: "-0.01", "0.00", "0.005"
BalanceInputs == {Dec(-1, 2), Dec(0, 2), Dec(5, 3)}
NameInputs == {"", "a", "b"}
\* the id create_account returns first, and the two explicit ids
IdInputs == {1, SeedIdA, SeedIdB}

VARIABLES
    accounts,       \* accounts table as the connection sees it: set of rows
    txs,            \* transactions table as the connection sees it: sequence
    disk_accounts,  \* accounts table as last committed
    disk_txs,       \* transactions table as last committed
    last,           \* the last ledger call and what it returned or raised
    threads,        \* concurrent callers: position in the call, locals, result
    lock,           \* the thread inside the atomic unit, or None
    active_connections, \* ConnectionManager.active_connections of the API: sequence
    closed,         \* websocket clients that have gone away and are still listed
    broadcast,      \* the ConnectionManager.broadcast in progress, if any
    inbox           \* per websocket client: the messages it has received

vars == <<accounts, txs, disk_accounts, disk_txs, last, threads, lock,
          active_connections, closed, broadcast, inbox>>
\* the state of the websocket side of the API
ws_vars == <<active_connections, closed, broadcast, inbox>>

\* ------------------------------------------------------------- the store
AccountRow(rowid, id, name, balance) ==
    [rowid |-> rowid, id |-> id, name |-> name, balance |-> balance]

\* rowid of a new row in a rowid table without AUTOINCREMENT: max + 1
NextRowid(rows) ==
    IF rows = {} THEN 1
    ELSE (CHOOSE m \in {r.rowid : r \in rows} : \A r \in rows : r.rowid <= m) + 1

\* transactions.id is INTEGER PRIMARY KEY AUTOINCREMENT; rows are never deleted
NextTxId(log) == Len(log) + 1

\* CURRENT_TIMESTAMP of the last row written (second resolution)
Now(log) == IF Len(log) = 0 THEN 0 ELSE log[Len(log)].created_at

\* SQL "column = ?": NULL equals nothing
SqlEq(col, param) == col # None /\ param # None /\ col = param

\* the orders in which a query without a total ORDER BY can return a set of rows
RECURSIVE Orderings(_)
Orderings(rows) ==
    IF rows = {} THEN {<<>>}
    ELSE UNION {{<<r>> \o rest : rest \in Orderings(rows \ {r})} : r \in rows}

\* The state of the store as one value: what the connection reads and writes
\* (accounts, txs) and what is committed (disk_accounts, disk_txs).
Store(a, t, da, dt) == [accounts |-> a, txs |-> t, disk_accounts |-> da, disk_txs |-> dt]

\* connection.commit(): everything the connection wrote becomes committed
Commit(S) == [S EXCEPT !.disk_accounts = S.accounts, !.disk_txs = S.txs]

\* ---------------------------------------------------------------- Account
\* Account.__post_init__: validate, then quantize the balance
Account_init(id, name, balance) ==
    IF name = "" THEN [err |-> "ValueError:name", id |-> id, name |-> name, balance |-> balance]
    ELSE IF Mills(balance) < 0
         THEN [err |-> "ValueError:negative", id |-> id, name |-> name, balance |-> balance]
         ELSE [err |-> "", id |-> id, name |-> name, balance |-> quantize(balance)]

\* Account.deposit as it would be if it added the amount as given
Account_deposit_raw(account, amount) ==
    IF Mills(amount) <= 0
    THEN [err |-> "InvalidAmountError", balance |-> account.balance]
    ELSE [err |-> "", balance |-> DecAdd(account.balance, amount)]

\* Account.deposit: returns the new balance or raises
Account_deposit(account, amount) ==
    IF Mills(amount) <= 0
    THEN [err |-> "InvalidAmountError", balance |-> account.balance]
    ELSE [err |-> "", balance |-> DecAdd(account.balance, quantize(amount))]

\* Account.withdraw: returns the new balance or raises
Account_withdraw(account, amount) ==
    IF Mills(amount) <= 0
    THEN [err |-> "InvalidAmountError", balance |-> account.balance]
    ELSE IF Mills(quantize(amount)) > Mills(account.balance)
         THEN [err |-> "InsufficientFundsError", balance |-> account.balance]
         ELSE [err |-> "", balance |-> DecSub(account.balance, quantize(amount))]

\* ------------------------------------------------------ AccountRepository
\* AccountRepository._row_to_account
row_to_account(row) == Account_init(row.id, row.name, str_to_decimal(row.balance))

\* AccountRepository.get_account_by_id: the rows "WHERE id = ?" selects
\* (id is the primary key: at most one row)
get_account_by_id(rows, account_id) == {r \in rows : SqlEq(r.id, account_id)}

\* AccountRepository.get_account_by_name: the rows "WHERE name = ?" selects
get_account_by_name(rows, name) == {r \in rows : r.name = name}

\* trigger prevent_negative_balance (BEFORE UPDATE OF balance)
prevent_negative_balance(new_text) == CastReal(new_text) < 0

\* trigger prevent_delete_nonzero_balance (BEFORE DELETE)
prevent_delete_nonzero_balance(old_text) == CastReal(old_text) # 0

\* trigger validate_transaction_amount (BEFORE INSERT ON transactions)
validate_transaction_amount(new_text) == CastReal(new_text) <= 0


\* create_account as it would be if the store gave a new row the id that a
\* deleted row has left free
repo_create_account_recycle(S, name, initial_balance) ==
    LET account == Account_init(None, name, initial_balance)
        free == {id \in {SeedIdA, SeedIdB} : get_account_by_id(S.accounts, id) = {}}
        id == IF free = {} THEN None ELSE CHOOSE x \in free : \A y \in free : x >= y
        rowid == NextRowid(S.accounts)
        row == AccountRow(rowid, id, account.name, decimal_to_str(account.balance))
    IN  IF account.err # ""
        THEN [err |-> account.err, S |-> S, id |-> None]
        ELSE [err |-> "", S |-> Commit([S EXCEPT !.accounts = S.accounts \cup {row}]),
              id |-> IF id = None THEN rowid ELSE id]

\* AccountRepository.create_account: validate, INSERT (name, balance), commit;
\* returns cursor.lastrowid.  The accounts table has no UNIQUE constraint, so
\* the "UNIQUE constraint failed" branch is never taken.
repo_create_account(S, name, initial_balance) ==
    LET account == Account_init(None, name, initial_balance)
        rowid == NextRowid(S.accounts)
        row == AccountRow(rowid, None, account.name, decimal_to_str(account.balance))
    IN  IF account.err # ""
        THEN [err |-> account.err, S |-> S, id |-> None]
        ELSE [err |-> "", S |-> Commit([S EXCEPT !.accounts = S.accounts \cup {row}]), id |-> rowid]

\* update_balance as it would be if it wrote through execute_insert, which commits
update_balance_commit(S, account_id, new_balance, storeFails) ==
    LET text == decimal_to_str(quantize(new_balance))
    IN  IF Mills(new_balance) < 0 THEN [err |-> "ValueError:negative", S |-> S]
        ELSE IF storeFails \/ (get_account_by_id(S.accounts, account_id) # {} /\ prevent_negative_balance(text))
             THEN [err |-> "StoreError", S |-> S]
             ELSE [err |-> "",
                   S |-> Commit([S EXCEPT !.accounts =
                            {IF SqlEq(r.id, account_id) THEN [r EXCEPT !.balance = text] ELSE r
                                : r \in S.accounts}])]

\* AccountRepository.update_balance: UPDATE ... WHERE id = ? through
\* execute_query (no commit); storeFails is a failure of the statement itself
update_balance(S, account_id, new_balance, storeFails) ==
    LET text == decimal_to_str(quantize(new_balance))
    IN  IF Mills(new_balance) < 0 THEN [err |-> "ValueError:negative", S |-> S]
        ELSE IF storeFails \/ (get_account_by_id(S.accounts, account_id) # {} /\ prevent_negative_balance(text))
             THEN [err |-> "StoreError", S |-> S]
             ELSE [err |-> "",
                   S |-> [S EXCEPT !.accounts =
                            {IF SqlEq(r.id, account_id) THEN [r EXCEPT !.balance = text] ELSE r
                                : r \in S.accounts}]]

\* delete_account as it would be if the DELETE took the transaction rows that
\* reference the account with it (the foreign keys declared ON DELETE CASCADE
\* and enforced)
repo_delete_account_cascade(S, account_id) ==
    LET found == get_account_by_id(S.accounts, account_id)
        kept(x) == ~(SqlEq(x.from_account_id, account_id) \/ SqlEq(x.to_account_id, account_id))
    IN  IF found = {} THEN [err |-> "", S |-> S, ret |-> FALSE]
        ELSE IF Mills(row_to_account(CHOOSE r \in found : TRUE).balance) # 0
             THEN [err |-> "ValueError:nonzero", S |-> S, ret |-> FALSE]
             ELSE [err |-> "",
                   S |-> [S EXCEPT !.accounts = S.accounts \ found, !.txs = SelectSeq(S.txs, kept)],
                   ret |-> TRUE]

\* AccountRepository.delete_account: DELETE through execute_query (no commit)
repo_delete_account(S, account_id) ==
    LET found == get_account_by_id(S.accounts, account_id)
    IN  IF found = {} THEN [err |-> "", S |-> S, ret |-> FALSE]
        ELSE LET row == CHOOSE r \in found : TRUE
                 account == row_to_account(row)
             IN  IF account.err # "" THEN [err |-> account.err, S |-> S, ret |-> FALSE]
                 ELSE IF Mills(account.balance) # 0
                      THEN [err |-> "ValueError:nonzero", S |-> S, ret |-> FALSE]
                      ELSE IF prevent_delete_nonzero_balance(row.balance)
                           THEN [err |-> "StoreError", S |-> S, ret |-> FALSE]
                           ELSE [err |-> "", S |-> [S EXCEPT !.accounts = S.accounts \ found],
                                 ret |-> TRUE]

\* AccountRepository.get_all_accounts: ORDER BY name only; rows of equal name
\* come in an order the query does not fix
\* position of a name in the BINARY collation of ORDER BY name
NameRank(n) == CASE n = "" -> 0 [] n = "a" -> 1 [] n = "b" -> 2 [] OTHER -> 3

get_all_accounts(rows) ==
    {o \in Orderings(rows) :
        \A i, j \in 1..Len(o) : i < j => NameRank(o[i].name) <= NameRank(o[j].name)}

\* ------------------------------------------------------------ Transaction
\* Transaction.__post_init__ as it would be without its validation
Transaction_init_unchecked(from_id, to_id, amount, type) == ""

\* Transaction.__post_init__
Transaction_init(from_id, to_id, amount, type) ==
    IF Mills(amount) <= 0 THEN "ValueError:amount"
    ELSE IF type \notin {"deposit", "withdrawal", "transfer"} THEN "ValueError:type"
    ELSE IF type = "deposit" /\ (from_id # None \/ to_id = None) THEN "ValueError:deposit"
    ELSE IF type = "withdrawal" /\ (from_id = None \/ to_id # None) THEN "ValueError:withdrawal"
    ELSE IF type = "transfer" /\ (from_id = None \/ to_id = None \/ from_id = to_id)
         THEN "ValueError:transfer"
    ELSE ""

TxRow(id, from_id, to_id, amount, type, created_at) ==
    [id |-> id, from_account_id |-> from_id, to_account_id |-> to_id, amount |-> amount,
     transaction_type |-> type, created_at |-> created_at]

\* TransactionRepository.create_transaction: INSERT and commit (execute_insert).
\* The amount is stored as given, str(transaction.amount).  tick is the time
\* that passed since the previous row was written.
create_transaction(S, from_id, to_id, amount, type, storeFails, tick) ==
    LET text == decimal_to_str(amount)
        row == TxRow(NextTxId(S.txs), from_id, to_id, text, type, Now(S.txs) + tick)
    IN  IF storeFails \/ validate_transaction_amount(text)
        THEN [err |-> "StoreError", S |-> S]
        ELSE [err |-> "", S |-> Commit([S EXCEPT !.txs = Append(S.txs, row)])]

\* TransactionRepository.get_account_transactions: the rows
\* "WHERE from_account_id = ? OR to_account_id = ? ORDER BY created_at DESC"
\* can return, as sequences of transaction ids.  The query orders by created_at
\* only: rows of the same second come in any order.
repo_get_account_transactions(log, account_id) ==
    LET match == {i \in 1..Len(log) :
                    SqlEq(log[i].from_account_id, account_id) \/ SqlEq(log[i].to_account_id, account_id)}
    IN  {o \in Orderings(match) :
            \A i, j \in 1..Len(o) : i < j => log[o[i]].created_at >= log[o[j]].created_at}

\* ------------------------------------------------------------- BankLedger
\* what a ledger call hands back: the store it leaves, the exception it
\* raised ("" for none) and the values it returned
Raise(S, err) ==
    [S |-> S, err |-> err, value |-> ZeroDec, value2 |-> ZeroDec, id |-> None, rows |-> <<>>]
Return(S, v, v2, id) ==
    [S |-> S, err |-> "", value |-> v, value2 |-> v2, id |-> id, rows |-> <<>>]

\* DatabaseManager.transaction(): the atomic unit around deposit, withdraw and
\* transfer.  When the body raises, what the unit wrote is undone; a commit
\* made inside the body cannot be undone.
transaction(entry, out) ==
    IF out.err = "" THEN out
    ELSE IF out.S.disk_accounts # entry.disk_accounts \/ out.S.disk_txs # entry.disk_txs
         THEN [out EXCEPT !.S.accounts = out.S.disk_accounts, !.S.txs = out.S.disk_txs]
         ELSE [out EXCEPT !.S = entry]

\* BankLedger.create_account
create_account(S, name, initial_balance, tick) ==
    LET c == repo_create_account(S, name, initial_balance)
    IN  IF c.err # "" THEN Raise(S, c.err)
        ELSE IF Mills(initial_balance) > 0
             THEN LET v == Transaction_init(None, c.id, initial_balance, "deposit")
                      t == create_transaction(c.S, None, c.id, initial_balance, "deposit", FALSE, tick)
                  IN  IF v # "" THEN Raise(c.S, v)
                      ELSE IF t.err # "" THEN Raise(c.S, t.err)
                      ELSE Return(t.S, ZeroDec, ZeroDec, c.id)
             ELSE Return(c.S, ZeroDec, ZeroDec, c.id)

\* BankLedger.get_account: the account or AccountNotFoundError
get_account(S, account_id) ==
    LET found == get_account_by_id(S.accounts, account_id)
    IN  IF found = {} THEN [err |-> "AccountNotFoundError", id |-> None, name |-> "", balance |-> ZeroDec]
        ELSE row_to_account(CHOOSE r \in found : TRUE)

\* the body of deposit as it would be if the amount were checked before the
\* account is loaded
deposit_body_amount_first(S, account_id, amount, fault, tick) ==
    LET account == get_account(S, account_id)
        d == Account_deposit(account, amount)
        u == update_balance(S, account_id, d.balance, fault = "update")
        v == Transaction_init(None, account_id, amount, "deposit")
        t == create_transaction(u.S, None, account_id, amount, "deposit", fault = "insert", tick)
    IN  IF d.err # "" THEN Raise(S, d.err)
        ELSE IF account.err # "" THEN Raise(S, account.err)
        ELSE IF u.err # "" THEN Raise(S, u.err)
        ELSE IF v # "" THEN Raise(u.S, v)
        ELSE IF t.err # "" THEN Raise(u.S, t.err)
        ELSE Return(t.S, d.balance, ZeroDec, None)

\* the body of BankLedger.deposit inside the atomic unit (ledger.py:147-164)
deposit_body(S, account_id, amount, fault, tick) ==
    LET account == get_account(S, account_id)
        d == Account_deposit(account, amount)
        u == update_balance(S, account_id, d.balance, fault = "update")
        v == Transaction_init(None, account_id, amount, "deposit")
        t == create_transaction(u.S, None, account_id, amount, "deposit", fault = "insert", tick)
    IN  IF account.err # "" THEN Raise(S, account.err)
        ELSE IF d.err # "" THEN Raise(S, d.err)
        ELSE IF u.err # "" THEN Raise(S, u.err)
        ELSE IF v # "" THEN Raise(u.S, v)
        ELSE IF t.err # "" THEN Raise(u.S, t.err)
        ELSE Return(t.S, d.balance, ZeroDec, None)

\* BankLedger.deposit
deposit(S, account_id, amount, fault, tick) ==
    transaction(S, deposit_body(S, account_id, amount, fault, tick))

\* the body of withdraw as it would be if it wrote no transaction record
withdraw_body_no_record(S, account_id, amount, fault, tick) ==
    LET account == get_account(S, account_id)
        w == Account_withdraw(account, amount)
        u == update_balance(S, account_id, w.balance, fault = "update")
    IN  IF account.err # "" THEN Raise(S, account.err)
        ELSE IF w.err # "" THEN Raise(S, w.err)
        ELSE IF u.err # "" THEN Raise(S, u.err)
        ELSE Return(Commit(u.S), w.balance, ZeroDec, None)

\* the body of BankLedger.withdraw inside the atomic unit (ledger.py:187-204)
withdraw_body(S, account_id, amount, fault, tick) ==
    LET account == get_account(S, account_id)
        w == Account_withdraw(account, amount)
        u == update_balance(S, account_id, w.balance, fault = "update")
        v == Transaction_init(account_id, None, amount, "withdrawal")
        t == create_transaction(u.S, account_id, None, amount, "withdrawal", fault = "insert", tick)
    IN  IF account.err # "" THEN Raise(S, account.err)
        ELSE IF w.err # "" THEN Raise(S, w.err)
        ELSE IF u.err # "" THEN Raise(S, u.err)
        ELSE IF v # "" THEN Raise(u.S, v)
        ELSE IF t.err # "" THEN Raise(u.S, t.err)
        ELSE Return(t.S, w.balance, ZeroDec, None)

\* BankLedger.withdraw
withdraw(S, account_id, amount, fault, tick) ==
    transaction(S, withdraw_body(S, account_id, amount, fault, tick))

\* the body of transfer as it would be if the source balance were not persisted
transfer_body_no_debit(S, from_account_id, to_account_id, amount, fault, tick) ==
    LET from_account == get_account(S, from_account_id)
        to_account == get_account(S, to_account_id)
        w == Account_withdraw(from_account, amount)
        d == Account_deposit(to_account, amount)
        u2 == update_balance(S, to_account_id, d.balance, fault = "update2")
        v == Transaction_init(from_account_id, to_account_id, amount, "transfer")
        t == create_transaction(u2.S, from_account_id, to_account_id, amount, "transfer",
                                fault = "insert", tick)
    IN  IF from_account.err # "" THEN Raise(S, from_account.err)
        ELSE IF to_account.err # "" THEN Raise(S, to_account.err)
        ELSE IF w.err # "" THEN Raise(S, w.err)
        ELSE IF d.err # "" THEN Raise(S, d.err)
        ELSE IF u2.err # "" THEN Raise(S, u2.err)
        ELSE IF v # "" THEN Raise(u2.S, v)
        ELSE IF t.err # "" THEN Raise(u2.S, t.err)
        ELSE Return(t.S, w.balance, d.balance, None)

\* the body of BankLedger.transfer inside the atomic unit (ledger.py:233-255)
transfer_body(S, from_account_id, to_account_id, amount, fault, tick) ==
    LET from_account == get_account(S, from_account_id)
        to_account == get_account(S, to_account_id)
        w == Account_withdraw(from_account, amount)
        d == Account_deposit(to_account, amount)
        u1 == update_balance(S, from_account_id, w.balance, fault = "update")
        u2 == update_balance(u1.S, to_account_id, d.balance, fault = "update2")
        v == Transaction_init(from_account_id, to_account_id, amount, "transfer")
        t == create_transaction(u2.S, from_account_id, to_account_id, amount, "transfer",
                                fault = "insert", tick)
    IN  IF from_account.err # "" THEN Raise(S, from_account.err)
        ELSE IF to_account.err # "" THEN Raise(S, to_account.err)
        ELSE IF w.err # "" THEN Raise(S, w.err)
        ELSE IF d.err # "" THEN Raise(S, d.err)
        ELSE IF u1.err # "" THEN Raise(S, u1.err)
        ELSE IF u2.err # "" THEN Raise(u1.S, u2.err)
        ELSE IF v # "" THEN Raise(u2.S, v)
        ELSE IF t.err # "" THEN Raise(u2.S, t.err)
        ELSE Return(t.S, w.balance, d.balance, None)

\* transfer as it would be without the same-account check of ledger.py:229
transfer_unchecked(S, from_account_id, to_account_id, amount, fault, tick) ==
    transaction(S, transfer_body(S, from_account_id, to_account_id, amount, fault, tick))

\* transfer as it would be if it were composed of a deposit to the destination
\* followed by a withdraw from the source, each its own atomic unit
transfer_two_units(S, from_account_id, to_account_id, amount, fault, tick) ==
    IF from_account_id = to_account_id THEN Raise(S, "ValueError:same")
    ELSE LET credit == deposit(S, to_account_id, amount, fault, tick)
             debit == withdraw(credit.S, from_account_id, amount, fault, 0)
         IN  IF credit.err # "" THEN credit
             ELSE IF debit.err # "" THEN debit
             ELSE Return(debit.S, debit.value, credit.value, None)

\* BankLedger.transfer: the same-account check comes before the atomic unit
transfer(S, from_account_id, to_account_id, amount, fault, tick) ==
    IF from_account_id = to_account_id THEN Raise(S, "ValueError:same")
    ELSE transaction(S, transfer_body(S, from_account_id, to_account_id, amount, fault, tick))

\* BankLedger.delete_account: no atomic unit, no commit
delete_account(S, account_id) ==
    LET account == get_account(S, account_id)
        d == repo_delete_account(S, account_id)
    IN  IF account.err # "" THEN Raise(S, account.err)
        ELSE IF d.err # "" THEN Raise(S, d.err)
        ELSE IF d.ret THEN Return(d.S, ZeroDec, ZeroDec, None)
        ELSE Raise(d.S, "False")

\* BankLedger.get_account_transactions: the lists the call can return
get_account_transactions(S, account_id) ==
    IF get_account(S, account_id).err # "" THEN {Raise(S, get_account(S, account_id).err)}
    ELSE {[Return(S, ZeroDec, ZeroDec, None) EXCEPT !.rows = o] :
             o \in repo_get_account_transactions(S.txs, account_id)}

\* BankLedger.list_accounts: the lists the call can return (the rows in an
\* order get_all_accounts can give them, each converted by _row_to_account)
list_accounts(S) ==
    IF \E r \in S.accounts : row_to_account(r).err # ""
    THEN {Raise(S, row_to_account(CHOOSE r \in S.accounts : row_to_account(r).err # "").err)}
    ELSE {[Return(S, ZeroDec, ZeroDec, None) EXCEPT !.rows = o] : o \in get_all_accounts(S.accounts)}

\* BankLedger.close (connection.close(): what the connection wrote and did not
\* commit is discarded) followed by BankLedger(db_path) on the same file
\* (CREATE TABLE IF NOT EXISTS: the committed rows are kept)
close_and_reopen(S) ==
    Return(Store(S.disk_accounts, S.disk_txs, S.disk_accounts, S.disk_txs),
           ZeroDec, ZeroDec, None)

\* BankLedger.get_total_system_balance: sum of account.balance over list_accounts()
RECURSIVE SumBalances(_)
SumBalances(rows) ==
    IF rows = {} THEN Dec(0, 0)
    ELSE LET r == CHOOSE x \in rows : TRUE
         IN  DecAdd(row_to_account(r).balance, SumBalances(rows \ {r}))

get_total_system_balance(rows) == SumBalances(rows)

\* ---------------------------------------------------------------- actions
Current == Store(accounts, txs, disk_accounts, disk_txs)

\* where the store may fail a statement of the call, and the seconds that
\* pass before the call writes its transaction row.  Both are inputs of a call
\* that reaches its writes (plain is the call without failure or delay); a
\* call that raises before them is the same call whatever they are.
Faults == {"none", "update2", "insert"}
Ticks == {k \in 0..1 : Now(txs) + k <= MaxTime}
FaultsOf(plain) == IF plain.err = "" THEN Faults ELSE {"none"}
TicksOf(plain) == IF plain.err = "" THEN Ticks ELSE {0}

Call(op, id, id2, name, amount, out) ==
    [op |-> op, id |-> id, id2 |-> id2, name |-> name, amount |-> amount,
     result |-> IF out.err = "" THEN "ok" ELSE out.err,
     value |-> out.value, value2 |-> out.value2, ret |-> out.id, rows |-> out.rows]

Writes(S) ==
    /\ accounts' = S.accounts
    /\ txs' = S.txs
    /\ disk_accounts' = S.disk_accounts
    /\ disk_txs' = S.disk_txs

Apply(out) == Writes(out.S) /\ UNCHANGED <<threads, lock>> /\ UNCHANGED ws_vars

\* rows a database file holds when the ledger opens it: none, or two rows
\* written with explicit ids
SeedRows ==
    {AccountRow(1, SeedIdA, "a", decimal_to_str(Dec(1, 2))),
     AccountRow(2, SeedIdB, "b", decimal_to_str(Dec(0, 2)))}

\* a thread that has not called the ledger yet
Threads == 1..NumThreads
Idle ==
    [pc |-> "idle", op |-> "", id |-> None, id2 |-> None, amount |-> ZeroDec,
     v1 |-> ZeroDec, v2 |-> ZeroDec, result |-> ""]

\* the API process before any websocket client has connected
Clients == {1, 2}
NoBroadcast == [running |-> FALSE, i |-> 0, data |-> 0, at_start |-> {}, sent |-> {}]
WsInit ==
    /\ active_connections = <<>>
    /\ closed = {}
    /\ broadcast = NoBroadcast
    /\ inbox = [c \in Clients |-> <<>>]

Init ==
    /\ accounts \in {{}, SeedRows}
    /\ txs = <<>>
    /\ disk_accounts = accounts
    /\ disk_txs = txs
    /\ last = Call("init", None, None, "", ZeroDec, Return(Current, ZeroDec, ZeroDec, None))
    /\ threads = [t \in Threads |-> Idle]
    /\ lock = None
    /\ WsInit

CreateAccount ==
    /\ Cardinality(accounts) < MaxRows
    /\ Len(txs) < MaxTx
    /\ \E name \in NameInputs, initial_balance \in BalanceInputs :
          \E tick \in TicksOf(create_account(Current, name, initial_balance, 0)) :
             LET out == create_account(Current, name, initial_balance, tick)
             IN  /\ Apply(out)
                 /\ last' = Call("create_account", None, None, name, initial_balance, out)

Deposit ==
    /\ Len(txs) < MaxTx
    /\ \E account_id \in IdInputs, amount \in AmountInputs :
          LET plain == deposit(Current, account_id, amount, "none", 0)
          IN  \E fault \in FaultsOf(plain), tick \in TicksOf(plain) :
                 LET out == deposit(Current, account_id, amount, fault, tick)
                 IN  /\ Apply(out)
                     /\ last' = Call("deposit", account_id, None, "", amount, out)

Withdraw ==
    /\ Len(txs) < MaxTx
    /\ \E account_id \in IdInputs, amount \in AmountInputs :
          LET plain == withdraw(Current, account_id, amount, "none", 0)
          IN  \E fault \in FaultsOf(plain), tick \in TicksOf(plain) :
                 LET out == withdraw(Current, account_id, amount, fault, tick)
                 IN  /\ Apply(out)
                     /\ last' = Call("withdraw", account_id, None, "", amount, out)

Transfer ==
    /\ Len(txs) < MaxTx
    /\ \E from_account_id \in IdInputs, to_account_id \in IdInputs, amount \in AmountInputs :
          LET plain == transfer(Current, from_account_id, to_account_id, amount, "none", 0)
          IN  \E fault \in FaultsOf(plain), tick \in TicksOf(plain) :
                 LET out == transfer(Current, from_account_id, to_account_id, amount, fault, tick)
                 IN  /\ Apply(out)
                     /\ last' = Call("transfer", from_account_id, to_account_id, "", amount, out)

DeleteAccount ==
    \E account_id \in IdInputs :
        LET out == delete_account(Current, account_id)
        IN  /\ Apply(out)
            /\ last' = Call("delete_account", account_id, None, "", ZeroDec, out)

GetAccountTransactions ==
    \E account_id \in IdInputs :
        \E out \in get_account_transactions(Current, account_id) :
            /\ Apply(out)
            /\ last' = Call("get_account_transactions", account_id, None, "", ZeroDec, out)

ListAccounts ==
    \E out \in list_accounts(Current) :
        /\ Apply(out)
        /\ last' = Call("list_accounts", None, None, "", ZeroDec, out)

CloseAndReopen ==
    LET out == close_and_reopen(Current)
    IN  /\ Apply(out)
        /\ last' = Call("reopen", None, None, "", ZeroDec, out)

Next ==
    \/ CreateAccount
    \/ Deposit
    \/ Withdraw
    \/ Transfer
    \/ DeleteAccount
    \/ GetAccountTransactions
    \/ ListAccounts
    \/ CloseAndReopen

Spec == Init /\ [][Next]_vars

TypeOK ==
    /\ \A r \in accounts : r.rowid \in 1..(MaxRows + 2) /\ r.name \in NameInputs
    /\ Len(txs) <= MaxTx

\* ------------------------------------------------------ concurrent callers
\* Several threads share one BankLedger (one connection, check_same_thread
\* = False).  Each thread makes one call; the statements of the call are the
\* steps, interleaved with the steps of the other threads wherever the atomic
\* unit allows it.
ConcIds == {SeedIdA, SeedIdB}
ConcAmounts == {Dec(5, 3)}
ConcOps == {"deposit", "withdraw", "transfer"}

\* DatabaseManager.transaction(), entry: the unit is isolated from the other
\* callers' units; a caller waits while another one is inside
transaction_enter(t) == lock = None /\ lock' = t

\* DatabaseManager.transaction(), exit: after an exception what the unit wrote
\* is undone (the callers here leave nothing uncommitted outside a unit, so
\* that is the committed state); the unit is left
transaction_exit(t, failed) ==
    /\ lock' = None
    /\ IF failed
       THEN accounts' = disk_accounts /\ txs' = disk_txs
       ELSE accounts' = accounts /\ txs' = txs
    /\ UNCHANGED <<disk_accounts, disk_txs>>

InitConc ==
    /\ accounts = SeedRows
    /\ txs = <<>>
    /\ disk_accounts = accounts
    /\ disk_txs = txs
    /\ last = Call("init", None, None, "", ZeroDec, Return(Current, ZeroDec, ZeroDec, None))
    /\ threads = [t \in Threads |-> Idle]
    /\ lock = None
    /\ WsInit

\* the call as it would start if its body were not inside the with block
Enter_no_unit(t) ==
    /\ threads[t].pc = "idle"
    /\ \E op \in ConcOps, id \in ConcIds, id2 \in ConcIds \cup {None}, amount \in ConcAmounts :
          /\ (op = "transfer") = (id2 # None)
          /\ LET call == [Idle EXCEPT !.op = op, !.id = id, !.id2 = id2, !.amount = amount]
             IN  threads' = [threads EXCEPT ![t] =
                                IF op = "transfer" /\ id = id2
                                THEN [call EXCEPT !.pc = "done", !.result = "ValueError:same"]
                                ELSE [call EXCEPT !.pc = "read"]]
    /\ UNCHANGED <<accounts, txs, disk_accounts, disk_txs, last, lock>> /\ UNCHANGED ws_vars

\* the call starts: transfer checks for the same account first
\* (ledger.py:229), then every operation enters the atomic unit
Enter(t) ==
    /\ threads[t].pc = "idle"
    /\ \E op \in ConcOps, id \in ConcIds, id2 \in ConcIds \cup {None}, amount \in ConcAmounts :
          /\ (op = "transfer") = (id2 # None)
          /\ LET call == [Idle EXCEPT !.op = op, !.id = id, !.id2 = id2, !.amount = amount]
             IN  IF op = "transfer" /\ id = id2
                 THEN /\ threads' = [threads EXCEPT
                                        ![t] = [call EXCEPT !.pc = "done", !.result = "ValueError:same"]]
                      /\ lock' = lock
                 ELSE /\ transaction_enter(t)
                      /\ threads' = [threads EXCEPT ![t] = [call EXCEPT !.pc = "read"]]
    /\ UNCHANGED <<accounts, txs, disk_accounts, disk_txs, last>> /\ UNCHANGED ws_vars

\* get_account (both accounts for a transfer) and the new balances computed
\* on the Account objects
Read(t) ==
    LET c == threads[t]
        account == get_account(Current, c.id)
        other == get_account(Current, c.id2)
        w == Account_withdraw(account, c.amount)
        d == Account_deposit(IF c.op = "transfer" THEN other ELSE account, c.amount)
        err == IF account.err # "" THEN account.err
               ELSE IF c.op = "transfer" /\ other.err # "" THEN other.err
               ELSE IF c.op # "deposit" /\ w.err # "" THEN w.err
               ELSE IF c.op # "withdraw" /\ d.err # "" THEN d.err
               ELSE ""
    IN  /\ c.pc = "read"
        /\ threads' = [threads EXCEPT ![t] =
               IF err # "" THEN [c EXCEPT !.pc = "exit", !.result = err]
               ELSE [c EXCEPT !.pc = "write",
                              !.v1 = IF c.op = "deposit" THEN d.balance ELSE w.balance,
                              !.v2 = d.balance]]
        /\ UNCHANGED <<accounts, txs, disk_accounts, disk_txs, last, lock>> /\ UNCHANGED ws_vars

\* update_balance of the account (of the source account for a transfer)
Write(t) ==
    LET c == threads[t]
        u == update_balance(Current, c.id, c.v1, FALSE)
    IN  /\ c.pc = "write"
        /\ Writes(u.S)
        /\ threads' = [threads EXCEPT ![t] =
               IF u.err # "" THEN [c EXCEPT !.pc = "exit", !.result = u.err]
               ELSE [c EXCEPT !.pc = IF c.op = "transfer" THEN "write2" ELSE "insert"]]
        /\ UNCHANGED <<last, lock>> /\ UNCHANGED ws_vars

\* update_balance of the destination account of a transfer
Write2(t) ==
    LET c == threads[t]
        u == update_balance(Current, c.id2, c.v2, FALSE)
    IN  /\ c.pc = "write2"
        /\ Writes(u.S)
        /\ threads' = [threads EXCEPT ![t] =
               IF u.err # "" THEN [c EXCEPT !.pc = "exit", !.result = u.err]
               ELSE [c EXCEPT !.pc = "insert"]]
        /\ UNCHANGED <<last, lock>> /\ UNCHANGED ws_vars

\* the Transaction is built and create_transaction inserts it and commits
Insert(t) ==
    LET c == threads[t]
        from_id == IF c.op = "deposit" THEN None ELSE c.id
        to_id == IF c.op = "deposit" THEN c.id ELSE c.id2
        type == IF c.op = "withdraw" THEN "withdrawal" ELSE c.op
        v == Transaction_init(from_id, to_id, c.amount, type)
        ins == create_transaction(Current, from_id, to_id, c.amount, type, FALSE, 0)
        err == IF v # "" THEN v ELSE ins.err
    IN  /\ c.pc = "insert"
        /\ Writes(IF v # "" THEN Current ELSE ins.S)
        /\ threads' = [threads EXCEPT ![t] =
               [c EXCEPT !.pc = "exit", !.result = IF err # "" THEN err ELSE "ok"]]
        /\ UNCHANGED <<last, lock>> /\ UNCHANGED ws_vars

\* the with block is left, by return or by the exception
Exit(t) ==
    /\ threads[t].pc = "exit"
    /\ transaction_exit(t, threads[t].result # "ok")
    /\ threads' = [threads EXCEPT ![t].pc = "done"]
    /\ UNCHANGED last /\ UNCHANGED ws_vars

NextConc ==
    \E t \in Threads :
        \/ Enter(t)
        \/ Read(t)
        \/ Write(t)
        \/ Write2(t)
        \/ Insert(t)
        \/ Exit(t)

SpecConc == InitConc /\ [][NextConc]_vars

\* ------------------------------------- delete_account among the callers
\* BankLedger.delete_account makes three statements and is not inside a with
\* block: the other threads' steps, and its own, interleave freely.

\* the DELETE statement of AccountRepository.delete_account: the trigger reads
\* the balance the row has when the statement runs; nothing is committed
delete_statement(S, account_id) ==
    LET found == get_account_by_id(S.accounts, account_id)
    IN  IF \E r \in found : prevent_delete_nonzero_balance(r.balance)
        THEN [err |-> "StoreError", S |-> S]
        ELSE [err |-> "", S |-> [S EXCEPT !.accounts = S.accounts \ found]]

\* the call starts
EnterDelete(t) ==
    /\ threads[t].pc = "idle"
    /\ \E id \in ConcIds :
          threads' = [threads EXCEPT ![t] =
                         [Idle EXCEPT !.op = "delete_account", !.id = id, !.pc = "dget"]]
    /\ UNCHANGED <<accounts, txs, disk_accounts, disk_txs, last, lock>> /\ UNCHANGED ws_vars

\* self.get_account(account_id)
DeleteGet(t) ==
    LET c == threads[t]
        account == get_account(Current, c.id)
    IN  /\ c.pc = "dget"
        /\ threads' = [threads EXCEPT ![t] =
               IF account.err # "" THEN [c EXCEPT !.pc = "done", !.result = account.err]
               ELSE [c EXCEPT !.pc = "dcheck"]]
        /\ UNCHANGED <<accounts, txs, disk_accounts, disk_txs, last, lock>> /\ UNCHANGED ws_vars

\* get_account_by_id and the balance check of the repository
DeleteCheck(t) ==
    LET c == threads[t]
        found == get_account_by_id(accounts, c.id)
        account == row_to_account(CHOOSE r \in found : TRUE)
    IN  /\ c.pc = "dcheck"
        /\ threads' = [threads EXCEPT ![t] =
               IF found = {} THEN [c EXCEPT !.pc = "done", !.result = "False"]
               ELSE IF account.err # "" THEN [c EXCEPT !.pc = "done", !.result = account.err]
               ELSE IF Mills(account.balance) # 0
                    THEN [c EXCEPT !.pc = "done", !.result = "ValueError:nonzero"]
                    ELSE [c EXCEPT !.pc = "ddelete"]]
        /\ UNCHANGED <<accounts, txs, disk_accounts, disk_txs, last, lock>> /\ UNCHANGED ws_vars

\* the DELETE statement
DeleteStatement(t) ==
    LET c == threads[t]
        d == delete_statement(Current, c.id)
    IN  /\ c.pc = "ddelete"
        /\ Writes(d.S)
        /\ threads' = [threads EXCEPT ![t] =
               [c EXCEPT !.pc = "done", !.result = IF d.err # "" THEN d.err ELSE "ok"]]
        /\ UNCHANGED <<last, lock>> /\ UNCHANGED ws_vars

NextConcDelete ==
    \E t \in Threads :
        \/ Enter(t)
        \/ Read(t)
        \/ Write(t)
        \/ Write2(t)
        \/ Insert(t)
        \/ Exit(t)
        \/ EnterDelete(t)
        \/ DeleteGet(t)
        \/ DeleteCheck(t)
        \/ DeleteStatement(t)

SpecConcDelete == InitConc /\ [][NextConcDelete]_vars

\* ------------------------------------------- the standalone API process
\* src/api/standalone_api.py serves the same two tables over HTTP and pushes
\* the dashboard to its websocket clients.  Every request opens its own
\* connection (get_db_connection), so it starts from the committed state, and
\* a connection closed without commit leaves nothing behind.  The handlers are
\* coroutines of one event loop: they run without interruption up to an await.
MaxApiRows == 4     \* account rows of the API database
MaxApiTx == 2       \* transaction rows the API writes

\* get_db_connection on a missing file: the schema (accounts.id INTEGER
\* PRIMARY KEY AUTOINCREMENT, an alias of the rowid) and three sample rows
SampleRows ==
    {AccountRow(1, 1, "Conta Corrente", decimal_to_str(Dec(100000, 2))),
     AccountRow(2, 2, "Poupanca", decimal_to_str(Dec(500000, 2))),
     AccountRow(3, 3, "Investimentos", decimal_to_str(Dec(1000000, 2)))}

\* request bodies: account ids (None: absent; 4: the id of the first account
\* created over the API), amounts 0 and 1, names, initial balances 0 and 0.5
ApiIdInputs == {None, 1, 2, 4}
ApiAmountInputs == {Dec(0, 0), Dec(1, 0)}
ApiNameInputs == {"", "c"}
ApiBalanceInputs == {Dec(0, 0), Dec(5, 1)}
\* round(random.uniform(10, 100), 2) of the simulation: 10.0
SimAmounts == {Dec(100, 1)}

\* Decimal(str(float(x))): the shortest decimal that spells the float, with at
\* least one fractional digit ("1.0", "0.5", "0.25")
RECURSIVE api_float(_)
api_float(d) ==
    IF d.e = 0 THEN Dec(d.c * 10, 1)
    ELSE IF d.e > 1 /\ d.c % 10 = 0 THEN api_float(Dec(d.c \div 10, d.e - 1))
    ELSE d

\* Decimal * Decimal('0.5')
DecHalf(d) == Dec(d.c * 5, d.e + 1)

\* "UPDATE accounts SET balance = ? WHERE id = ?" with str(new_balance)
api_update(S, account_id, new_balance) ==
    [S EXCEPT !.accounts = {IF SqlEq(r.id, account_id)
                            THEN [r EXCEPT !.balance = decimal_to_str(new_balance)]
                            ELSE r : r \in S.accounts}]

\* "INSERT INTO transactions (...) VALUES (..., datetime('now'))"
api_insert(S, from_id, to_id, amount, type) ==
    [S EXCEPT !.txs = Append(S.txs, TxRow(NextTxId(S.txs), from_id, to_id,
                                          decimal_to_str(amount), type, Now(S.txs)))]

\* raise HTTPException(status_code=...) inside a handler
HTTPException(S, status) == Raise(S, status)

\* the handlers' "except Exception as e: raise HTTPException(status_code=500,
\* detail=str(e))" around the whole body: HTTPException is an Exception, so
\* what the body raised is raised again as 500; conn.close() in the finally
\* clause discards what was not committed
except_Exception(out) ==
    IF out.err = "" THEN out
    ELSE HTTPException(Store(out.S.disk_accounts, out.S.disk_txs,
                             out.S.disk_accounts, out.S.disk_txs), "500")

\* POST /api/accounts
api_create_account(S, name, initial_balance) ==
    LET id == NextRowid(S.accounts)
        row == AccountRow(id, id, name, decimal_to_str(initial_balance))
    IN  except_Exception(
            IF name = "" THEN HTTPException(S, "400")
            ELSE Return(Commit([S EXCEPT !.accounts = S.accounts \cup {row}]),
                        initial_balance, ZeroDec, id))

\* POST /api/transactions/deposit
api_deposit(S, account_id, json_amount) ==
    LET amount == api_float(json_amount)
        row == get_account_by_id(S.accounts, account_id)
        current_balance == str_to_decimal((CHOOSE r \in row : TRUE).balance)
        new_balance == DecAdd(current_balance, amount)
    IN  except_Exception(
            IF account_id = None \/ Mills(amount) <= 0 THEN HTTPException(S, "400")
            ELSE IF row = {} THEN HTTPException(S, "404")
            ELSE Return(Commit(api_insert(api_update(S, account_id, new_balance),
                                          None, account_id, amount, "deposit")),
                        ZeroDec, ZeroDec, None))

\* POST /api/transactions/withdrawal
api_withdrawal(S, account_id, json_amount) ==
    LET amount == api_float(json_amount)
        row == get_account_by_id(S.accounts, account_id)
        current_balance == str_to_decimal((CHOOSE r \in row : TRUE).balance)
        new_balance == DecSub(current_balance, amount)
    IN  except_Exception(
            IF account_id = None \/ Mills(amount) <= 0 THEN HTTPException(S, "400")
            ELSE IF row = {} THEN HTTPException(S, "404")
            ELSE IF Mills(current_balance) < Mills(amount) THEN HTTPException(S, "400")
            ELSE Return(Commit(api_insert(api_update(S, account_id, new_balance),
                                          account_id, None, amount, "withdrawal")),
                        ZeroDec, ZeroDec, None))

\* POST /api/transactions/transfer: both balances are read first, then the
\* two UPDATEs are made with the values computed from what was read
api_transfer(S, from_account_id, to_account_id, json_amount) ==
    LET transfer_amount == api_float(json_amount)
        from_row == get_account_by_id(S.accounts, from_account_id)
        to_row == get_account_by_id(S.accounts, to_account_id)
        from_balance == str_to_decimal((CHOOSE r \in from_row : TRUE).balance)
        to_balance == str_to_decimal((CHOOSE r \in to_row : TRUE).balance)
        u1 == api_update(S, from_account_id, DecSub(from_balance, transfer_amount))
        u2 == api_update(u1, to_account_id, DecAdd(to_balance, transfer_amount))
    IN  except_Exception(
            IF from_account_id = None \/ to_account_id = None \/ Mills(transfer_amount) <= 0
            THEN HTTPException(S, "400")
            ELSE IF from_row = {} THEN HTTPException(S, "404")
            ELSE IF to_row = {} THEN HTTPException(S, "404")
            ELSE IF Mills(from_balance) < Mills(transfer_amount) THEN HTTPException(S, "400")
            ELSE Return(Commit(api_insert(u2, from_account_id, to_account_id,
                                          transfer_amount, "transfer")),
                        ZeroDec, ZeroDec, None))

\* POST /api/simulate/random-transaction: the outcomes of the random choices
\* (the type, the amount, the account or the two accounts)
simulate_deposit(S, account, amount) ==
    Return(Commit(api_insert(api_update(S, account.id,
                                        DecAdd(str_to_decimal(account.balance), amount)),
                             None, account.id, amount, "deposit")),
           amount, ZeroDec, None)
simulate_withdrawal(S, account, amount) ==
    Return(Commit(api_insert(api_update(S, account.id,
                                        DecSub(str_to_decimal(account.balance), amount)),
                             account.id, None, amount, "withdrawal")),
           amount, ZeroDec, None)
simulate_transfer(S, from_acc, to_acc, amount) ==
    LET from_balance == str_to_decimal(from_acc.balance)
        to_balance == str_to_decimal(to_acc.balance)
        half == api_float(DecHalf(from_balance))
        transfer_amount ==
            IF Mills(from_balance) < Mills(amount)
            THEN (IF Mills(half) < Mills(Dec(1, 0)) THEN Dec(10, 1) ELSE half)
            ELSE amount
        u1 == api_update(S, from_acc.id, DecSub(from_balance, transfer_amount))
        u2 == api_update(u1, to_acc.id, DecAdd(to_balance, transfer_amount))
    IN  Return(Commit(api_insert(u2, from_acc.id, to_acc.id, transfer_amount, "transfer")),
               transfer_amount, ZeroDec, None)
simulate_random_transaction(S) ==
    LET rows == S.accounts
        eligible(amount) == {acc \in rows : Mills(str_to_decimal(acc.balance)) >= Mills(amount)}
    IN  IF rows = {} THEN {except_Exception(HTTPException(S, "400"))}
        ELSE UNION {
               {simulate_deposit(S, account, amount) : account \in rows}
               \cup (IF eligible(amount) = {}
                     THEN {simulate_deposit(S, account, amount) : account \in rows}
                     ELSE {simulate_withdrawal(S, account, amount) : account \in eligible(amount)})
               \cup (IF Cardinality(rows) >= 2
                     THEN UNION {{simulate_transfer(S, from_acc, to_acc, amount) :
                                    to_acc \in {acc \in rows : acc.id # from_acc.id}} :
                                 from_acc \in rows}
                     ELSE {})
               : amount \in SimAmounts}

\* get_dashboard_data(): read from the committed state on a connection of its
\* own (the total, the number of accounts, the number of transactions)
RECURSIVE StoredTotal(_)
StoredTotal(rows) ==
    IF rows = {} THEN 0
    ELSE LET r == CHOOSE x \in rows : TRUE
         IN  CastReal(r.balance) + StoredTotal(rows \ {r})
get_dashboard_data(S) ==
    [total_balance |-> StoredTotal(S.disk_accounts),
     total_accounts |-> Cardinality(S.disk_accounts),
     transactions |-> Len(S.disk_txs)]

\* the clients listed in ConnectionManager.active_connections
Listed == {active_connections[k] : k \in 1..Len(active_connections)}

\* a handler's database part, then, after a commit, get_dashboard_data() and
\* the call of manager.broadcast, which runs up to its first await
Respond(op, id, id2, name, amount, out) ==
    /\ ~broadcast.running
    /\ Writes(out.S)
    /\ last' = Call(op, id, id2, name, amount, out)
    /\ broadcast' = IF out.err = ""
                    THEN [running |-> TRUE, i |-> 0, data |-> get_dashboard_data(out.S),
                          at_start |-> Listed, sent |-> {}]
                    ELSE broadcast
    /\ UNCHANGED <<threads, lock, active_connections, closed, inbox>>

InitApi ==
    /\ accounts = SampleRows
    /\ txs = <<>>
    /\ disk_accounts = accounts
    /\ disk_txs = txs
    /\ last = Call("init", None, None, "", ZeroDec, Return(Current, ZeroDec, ZeroDec, None))
    /\ threads = [t \in Threads |-> Idle]
    /\ lock = None
    /\ WsInit

ApiCreateAccount ==
    /\ Cardinality(accounts) < MaxApiRows
    /\ \E name \in ApiNameInputs, initial_balance \in ApiBalanceInputs :
          Respond("api_create_account", None, None, name, initial_balance,
                  api_create_account(Current, name, initial_balance))

ApiDeposit ==
    /\ Len(txs) < MaxApiTx
    /\ \E account_id \in ApiIdInputs, amount \in ApiAmountInputs :
          Respond("api_deposit", account_id, None, "", amount,
                  api_deposit(Current, account_id, amount))

ApiWithdrawal ==
    /\ Len(txs) < MaxApiTx
    /\ \E account_id \in ApiIdInputs, amount \in ApiAmountInputs :
          Respond("api_withdrawal", account_id, None, "", amount,
                  api_withdrawal(Current, account_id, amount))

ApiTransfer ==
    /\ Len(txs) < MaxApiTx
    /\ \E from_account_id \in ApiIdInputs, to_account_id \in ApiIdInputs,
          amount \in ApiAmountInputs :
          Respond("api_transfer", from_account_id, to_account_id, "", amount,
                  api_transfer(Current, from_account_id, to_account_id, amount))

ApiSimulate ==
    /\ Len(txs) < MaxApiTx
    /\ \E out \in simulate_random_transaction(Current) :
          Respond("api_simulate", None, None, "", out.value, out)

\* websocket_endpoint up to its receive loop: manager.connect (accept,
\* append) and the initial dashboard_update
WsConnect(c) ==
    /\ c \notin Listed /\ inbox[c] = <<>>
    /\ active_connections' = Append(active_connections, c)
    /\ inbox' = [inbox EXCEPT ![c] = <<get_dashboard_data(Current)>>]
    /\ UNCHANGED <<accounts, txs, disk_accounts, disk_txs, last, threads, lock, closed, broadcast>>

\* the client goes away: from now on a send to it raises
WsClose(c) ==
    /\ c \in Listed /\ c \notin closed
    /\ closed' = closed \cup {c}
    /\ UNCHANGED <<accounts, txs, disk_accounts, disk_txs, last, threads, lock,
                   active_connections, broadcast, inbox>>

\* receive_text raises WebSocketDisconnect in the client's websocket_endpoint:
\* manager.disconnect removes the client from the list
WsDisconnect(c) ==
    /\ c \in closed
    /\ active_connections' = SelectSeq(active_connections, LAMBDA x : x # c)
    /\ closed' = closed \ {c}
    /\ UNCHANGED <<accounts, txs, disk_accounts, disk_txs, last, threads, lock, broadcast, inbox>>

\* one round of "for connection in self.active_connections": the list
\* iterator yields the element at its index and moves on; send_text is
\* awaited, and an exception of it is passed over
BroadcastSend ==
    /\ broadcast.running /\ broadcast.i < Len(active_connections)
    /\ LET connection == active_connections[broadcast.i + 1]
       IN  IF connection \in closed
           THEN /\ inbox' = inbox
                /\ broadcast' = [broadcast EXCEPT !.i = @ + 1]
           ELSE /\ inbox' = [inbox EXCEPT ![connection] = Append(@, broadcast.data)]
                /\ broadcast' = [broadcast EXCEPT !.i = @ + 1, !.sent = @ \cup {connection}]
    /\ UNCHANGED <<accounts, txs, disk_accounts, disk_txs, last, threads, lock,
                   active_connections, closed>>

\* the iterator is exhausted: broadcast returns and the handler responds
BroadcastEnd ==
    /\ broadcast.running /\ broadcast.i >= Len(active_connections)
    /\ broadcast' = NoBroadcast
    /\ UNCHANGED <<accounts, txs, disk_accounts, disk_txs, last, threads, lock,
                   active_connections, closed, inbox>>

\* the HTTP side: requests made while no websocket client is connected
NextApi ==
    \/ ApiCreateAccount
    \/ ApiDeposit
    \/ ApiWithdrawal
    \/ ApiTransfer
    \/ ApiSimulate
    \/ BroadcastEnd

SpecApi == InitApi /\ [][NextApi]_vars

\* the websocket side: clients come and go while requests that commit are made
NextWs ==
    \/ ApiCreateAccount
    \/ ApiDeposit
    \/ \E c \in Clients : WsConnect(c)
    \/ \E c \in Clients : WsClose(c)
    \/ \E c \in Clients : WsDisconnect(c)
    \/ BroadcastSend
    \/ BroadcastEnd

SpecWs == InitApi /\ [][NextWs]_vars

\* ------------------------------------------------- direct store access
\* SQL statements made on the connection itself, past the ledger, with the
\* three protection triggers installed (create_all_protection_triggers), as
\* examples/triggers_demo.py and DatabaseTriggersManager.test_triggers make them.
DirectIds == {SeedIdA, SeedIdB}
\* balances and amounts as TEXT: '-0.01', '0.00', '0.01'
DirectTexts == {decimal_to_str(Dec(-1, 2)), decimal_to_str(Dec(0, 2)), decimal_to_str(Dec(1, 2))}

Statement(S, err) == IF err = "" THEN Return(S, ZeroDec, ZeroDec, None) ELSE Raise(S, err)

\* INSERT INTO accounts (id, name, balance) VALUES (?, ?, ?): the primary key
\* rejects a used id; no trigger is defined on INSERT ON accounts
sql_insert_account(S, id, name, balance) ==
    IF get_account_by_id(S.accounts, id) # {} THEN Statement(S, "IntegrityError")
    ELSE Statement([S EXCEPT !.accounts = S.accounts
                                \cup {AccountRow(NextRowid(S.accounts), id, name, balance)}], "")

\* INSERT OR REPLACE INTO accounts (id, name, balance) VALUES (?, ?, ?): the
\* row that holds the id is removed by the conflict resolution, for which the
\* DELETE trigger does not fire (recursive_triggers is off), and the new row
\* is inserted
sql_replace_account(S, id, name, balance) ==
    LET kept == S.accounts \ get_account_by_id(S.accounts, id)
    IN  Statement([S EXCEPT !.accounts = kept
                                \cup {AccountRow(NextRowid(S.accounts), id, name, balance)}], "")

\* UPDATE accounts SET balance = ? WHERE id = ?: trigger prevent_negative_balance
sql_update_balance(S, id, balance) ==
    IF get_account_by_id(S.accounts, id) # {} /\ prevent_negative_balance(balance)
    THEN Statement(S, "IntegrityError")
    ELSE Statement([S EXCEPT !.accounts = {IF SqlEq(r.id, id) THEN [r EXCEPT !.balance = balance]
                                           ELSE r : r \in S.accounts}], "")

\* DELETE FROM accounts WHERE id = ?: trigger prevent_delete_nonzero_balance
sql_delete_account(S, id) ==
    LET d == delete_statement(S, id)
    IN  Statement(d.S, IF d.err # "" THEN "IntegrityError" ELSE "")

\* INSERT INTO transactions (from_account_id, amount, transaction_type)
\* VALUES (?, ?, 'withdrawal'): trigger validate_transaction_amount
sql_insert_transaction(S, from_id, amount) ==
    IF validate_transaction_amount(amount) THEN Statement(S, "IntegrityError")
    ELSE Statement([S EXCEPT !.txs = Append(S.txs, TxRow(NextTxId(S.txs), from_id, None, amount,
                                                         "withdrawal", Now(S.txs)))], "")

\* UPDATE transactions SET amount = ? WHERE id = ?: no trigger is defined on
\* UPDATE ON transactions
sql_update_transaction(S, id, amount) ==
    Statement([S EXCEPT !.txs = [i \in 1..Len(S.txs) |->
                                    IF S.txs[i].id = id THEN [S.txs[i] EXCEPT !.amount = amount]
                                    ELSE S.txs[i]]], "")

InitDirect ==
    /\ accounts = {}
    /\ txs = <<>>
    /\ disk_accounts = accounts
    /\ disk_txs = txs
    /\ last = Call("init", None, None, "", ZeroDec, Return(Current, ZeroDec, ZeroDec, None))
    /\ threads = [t \in Threads |-> Idle]
    /\ lock = None
    /\ WsInit

SqlInsertAccount ==
    /\ NextRowid(accounts) <= MaxRows
    /\ \E id \in DirectIds, balance \in DirectTexts :
          LET out == sql_insert_account(Current, id, "a", balance)
          IN  /\ Apply(out)
              /\ last' = Call("sql_insert_account", id, None, "a", str_to_decimal(balance), out)

SqlReplaceAccount ==
    /\ NextRowid(accounts) <= MaxRows
    /\ \E id \in DirectIds, balance \in DirectTexts :
          LET out == sql_replace_account(Current, id, "a", balance)
          IN  /\ Apply(out)
              /\ last' = Call("sql_replace_account", id, None, "a", str_to_decimal(balance), out)

SqlUpdateBalance ==
    \E id \in DirectIds, balance \in DirectTexts :
        LET out == sql_update_balance(Current, id, balance)
        IN  /\ Apply(out)
            /\ last' = Call("sql_update_balance", id, None, "", str_to_decimal(balance), out)

SqlDeleteAccount ==
    \E id \in DirectIds :
        LET out == sql_delete_account(Current, id)
        IN  /\ Apply(out)
            /\ last' = Call("sql_delete_account", id, None, "", ZeroDec, out)

SqlInsertTransaction ==
    /\ Len(txs) < MaxTx
    /\ \E from_id \in DirectIds, amount \in DirectTexts :
          LET out == sql_insert_transaction(Current, from_id, amount)
          IN  /\ Apply(out)
              /\ last' = Call("sql_insert_transaction", from_id, None, "", str_to_decimal(amount), out)

SqlUpdateTransaction ==
    \E id \in 1..Len(txs), amount \in DirectTexts :
        LET out == sql_update_transaction(Current, id, amount)
        IN  /\ Apply(out)
            /\ last' = Call("sql_update_transaction", id, None, "", str_to_decimal(amount), out)

NextDirect ==
    \/ SqlInsertAccount
    \/ SqlReplaceAccount
    \/ SqlUpdateBalance
    \/ SqlDeleteAccount
    \/ SqlInsertTransaction
    \/ SqlUpdateTransaction

SpecDirect == InitDirect /\ [][NextDirect]_vars

\* ================================================================= claims
\* the id by which a caller knows an account row: the value create_account
\* returned for it, or the explicit id it was written with
Handle(r) == IF r.id = None THEN r.rowid ELSE r.id

Mutating == {"deposit", "withdraw", "transfer"}
StoreUnchanged ==
    /\ accounts' = accounts /\ txs' = txs
    /\ disk_accounts' = disk_accounts /\ disk_txs' = disk_txs

\* a decimal rounded half-up to 2 fractional digits, in thousandths
RoundedMills(d) ==
    LET unit == Pow10(MaxDigits - 2)
    IN  Sign(Mills(d)) * (((2 * Abs(Mills(d)) + unit) \div (2 * unit)) * unit)

TotalMills(rows) == Mills(get_total_system_balance(rows))
Succeeded(call) == call.result = "ok"

\* C1 (as stated): every deposit, withdraw or transfer call changes the total
\* system balance by the amount of the call if it is a successful deposit, by
\* minus the amount if it is a successful withdrawal, and not at all otherwise.
C1Original ==
    [][ /\ last'.op = "deposit" =>
             TotalMills(accounts') =
                 TotalMills(accounts) + IF Succeeded(last') THEN Mills(last'.amount) ELSE 0
        /\ last'.op = "withdraw" =>
             TotalMills(accounts') =
                 TotalMills(accounts) - IF Succeeded(last') THEN Mills(last'.amount) ELSE 0
        /\ last'.op = "transfer" => TotalMills(accounts') = TotalMills(accounts) ]_vars

\* C1 (amended): every deposit, withdraw or transfer call changes the total
\* system balance by the amount rounded half-up to 2 digits if it is a
\* successful deposit, by minus the rounded amount if it is a successful
\* withdrawal, and not at all otherwise; a transfer never changes the total.
C1Conservation ==
    [][ /\ last'.op = "deposit" =>
             TotalMills(accounts') =
                 TotalMills(accounts) + IF Succeeded(last') THEN RoundedMills(last'.amount) ELSE 0
        /\ last'.op = "withdraw" =>
             TotalMills(accounts') =
                 TotalMills(accounts) - IF Succeeded(last') THEN RoundedMills(last'.amount) ELSE 0
        /\ last'.op = "transfer" => TotalMills(accounts') = TotalMills(accounts) ]_vars

\* a withdrawal of an amount with 3 fractional digits has succeeded after a
\* successful deposit
C1Witness ==
    /\ last.op = "withdraw" /\ Succeeded(last) /\ last.amount.e = 3
    /\ \E i \in 1..Len(txs) : txs[i].transaction_type = "deposit"

\* C2: every stored balance is >= 0, and a withdraw, or a transfer to another
\* existing account, of a positive amount larger than the balance of the
\* account it names fails with InsufficientFundsError and leaves that account
\* unchanged.
C2NonNegative == \A r \in accounts : CastReal(r.balance) >= 0
C2Claim ==
    /\ []C2NonNegative
    /\ [][ \A r \in accounts :
             ( /\ last'.id = Handle(r)
               /\ Mills(last'.amount) > 0
               /\ RoundedMills(last'.amount) > CastReal(r.balance)
               /\ \/ last'.op = "withdraw"
                  \/ /\ last'.op = "transfer"
                     /\ \E t \in accounts : t # r /\ Handle(t) = last'.id2 )
             => (last'.result = "InsufficientFundsError" /\ r \in accounts') ]_vars

\* C3: a transfer that fails with InsufficientFundsError leaves every account
\* row and the transaction log as they were.
C3FailedTransfer ==
    [][ (last'.op = "transfer" /\ last'.result = "InsufficientFundsError")
          => StoreUnchanged ]_vars

\* a transfer between two existing accounts has failed for lack of funds
C3Witness ==
    /\ last.op = "transfer" /\ last.result = "InsufficientFundsError"
    /\ get_account_by_id(accounts, last.id) # {} /\ get_account_by_id(accounts, last.id2) # {}

\* C4: a deposit, withdraw or transfer that fails leaves the accounts and the
\* transaction log, as read and as committed, as they were; one that succeeds
\* appends exactly one transaction row, and what was written is committed.
C4AllOrNothing ==
    [][ last'.op \in Mutating =>
          IF Succeeded(last')
          THEN /\ Len(txs') = Len(txs) + 1
               /\ accounts' # accounts
               /\ disk_accounts' = accounts' /\ disk_txs' = txs'
          ELSE StoreUnchanged ]_vars

\* a transfer failed in the store after the source balance was written
C4Witness ==
    /\ last.op = "transfer" /\ last.result = "StoreError"
    /\ get_account_by_id(accounts, last.id) # {} /\ get_account_by_id(accounts, last.id2) # {}

\* the calls of the threads made one at a time in the given order, from the
\* store the threads started with: the store they leave, and whether each
\* call ends as it ended for its thread
SerialCall(S, c) ==
    CASE c.op = "deposit" -> deposit(S, c.id, c.amount, "none", 0)
      [] c.op = "withdraw" -> withdraw(S, c.id, c.amount, "none", 0)
      [] OTHER -> transfer(S, c.id, c.id2, c.amount, "none", 0)
RECURSIVE Replay(_, _)
Replay(S, order) ==
    IF order = <<>> THEN [S |-> S, same |-> TRUE]
    ELSE LET c == threads[Head(order)]
             out == SerialCall(S, c)
             rest == Replay(out.S, Tail(order))
         IN  [S |-> rest.S,
              same |-> rest.same /\ c.result = (IF out.err = "" THEN "ok" ELSE out.err)]

AllDone == \A t \in Threads : threads[t].pc = "done"
Balances(rows) == {<<r.rowid, r.balance>> : r \in rows}
RECURSIVE SumOver(_, _)
SumOver(ts, f) ==
    IF ts = {} THEN 0
    ELSE LET t == CHOOSE x \in ts : TRUE
         IN  f[t] + SumOver(ts \ {t}, f)
\* the sum of amountOf(amount) over the successful calls that counts() selects
SumCalls(amountOf(_), counts(_)) ==
    SumOver(Threads, [t \in Threads |->
                         IF threads[t].result = "ok" /\ counts(threads[t])
                         THEN amountOf(threads[t].amount) ELSE 0])
Credits(id, amountOf(_)) ==
    LET counts(c) == (c.op = "deposit" /\ c.id = id) \/ (c.op = "transfer" /\ c.id2 = id)
    IN  SumCalls(amountOf, counts)
Debits(id, amountOf(_)) ==
    LET counts(c) == c.op \in {"withdraw", "transfer"} /\ c.id = id
    IN  SumCalls(amountOf, counts)
Deposited(amountOf(_)) ==
    LET counts(c) == c.op = "deposit"
    IN  SumCalls(amountOf, counts)
Withdrawn(amountOf(_)) ==
    LET counts(c) == c.op = "withdraw"
    IN  SumCalls(amountOf, counts)

Serializable ==
    \E order \in Orderings(Threads) :
        LET r == Replay(Store(SeedRows, <<>>, SeedRows, <<>>), order)
        IN  r.same /\ Balances(r.S.accounts) = Balances(accounts)

\* C5 (as stated): when all threads have returned, the balances are those of
\* the calls made one at a time in some order, and the total is the initial
\* total plus the amounts of the successful deposits minus the amounts of the
\* successful withdrawals.
C5Original ==
    AllDone =>
        /\ Serializable
        /\ TotalMills(accounts) = TotalMills(SeedRows) + Deposited(Mills) - Withdrawn(Mills)

\* C5 (amended): when all threads have returned, the balances are those of
\* the calls made one at a time in some order, each call ending as it ended
\* for its thread; every balance is its initial value plus the successful
\* credits minus the successful debits, amounts rounded half-up to 2 digits,
\* and is not negative; the total is the initial total plus the rounded
\* successful deposits minus the rounded successful withdrawals.
C5Serializable ==
    AllDone =>
        /\ Serializable
        /\ \A r \in SeedRows : \E s \in accounts :
              /\ s.rowid = r.rowid
              /\ CastReal(s.balance) = CastReal(r.balance) + Credits(r.id, RoundedMills)
                                           - Debits(r.id, RoundedMills)
              /\ CastReal(s.balance) >= 0
        /\ TotalMills(accounts) =
              TotalMills(SeedRows) + Deposited(RoundedMills) - Withdrawn(RoundedMills)

\* two threads have debited the same account, which could afford only one of
\* the debits: one succeeded and one failed for lack of funds
C5Witness ==
    /\ AllDone
    /\ \E t, u \in Threads :
          /\ t # u /\ threads[t].id = threads[u].id
          /\ threads[t].op = "withdraw" /\ threads[t].result = "ok"
          /\ threads[u].op \in {"withdraw", "transfer"}
          /\ threads[u].result = "InsufficientFundsError"

\* C6: no two account rows have the same name, and a create_account with a
\* name an existing account has fails with the duplicate-name error and
\* leaves the accounts and the transaction log as they were.
C6NamesUnique == \A r, s \in accounts : r.name = s.name => r = s
C6Claim ==
    /\ []C6NamesUnique
    /\ [][ ( /\ last'.op = "create_account" /\ Mills(last'.amount) >= 0
             /\ \E r \in accounts : r.name = last'.name )
             => (last'.result = "ValueError:exists" /\ StoreUnchanged) ]_vars

\* C7: delete_account of an account whose balance is not zero fails with the
\* non-zero-balance error and the row stays as it was; of an account whose
\* balance is zero it returns True, and get_account of that id then raises
\* AccountNotFoundError.
C7Claim ==
    [][ \A r \in accounts :
          (last'.op = "delete_account" /\ last'.id = Handle(r)) =>
             IF CastReal(r.balance) # 0
             THEN last'.result = "ValueError:nonzero" /\ r \in accounts'
             ELSE /\ last'.result = "ok"
                  /\ get_account(Store(accounts', txs', disk_accounts', disk_txs'),
                                 last'.id).err = "AccountNotFoundError" ]_vars

\* C8: a successful get_account_transactions(id) returns exactly the
\* transactions in which the account is source or destination, in descending
\* order of transaction id (a later call's row before an earlier call's row).
C8Claim ==
    (last.op = "get_account_transactions" /\ Succeeded(last)) =>
        /\ {last.rows[i] : i \in 1..Len(last.rows)} =
               {k \in 1..Len(txs) :
                   txs[k].from_account_id = last.id \/ txs[k].to_account_id = last.id}
        /\ \A i, j \in 1..Len(last.rows) : i < j => last.rows[i] > last.rows[j]

\* C9: a successful deposit of amount a onto balance b stores and returns
\* exactly b + q(a), a successful withdraw exactly b - q(a), q rounding
\* half-up to 2 fractional digits; the stored and returned values have 2
\* fractional digits and the returned value is the balance read back.
C9ExactRounding ==
    [][ \A r \in accounts :
          (last'.op \in {"deposit", "withdraw"} /\ Succeeded(last') /\ last'.id = Handle(r)) =>
             LET expected == IF last'.op = "deposit"
                             THEN CastReal(r.balance) + RoundedMills(last'.amount)
                             ELSE CastReal(r.balance) - RoundedMills(last'.amount)
                 after == Store(accounts', txs', disk_accounts', disk_txs')
             IN  /\ Mills(last'.value) = expected /\ last'.value.e = 2
                 /\ \E s \in accounts' :
                       /\ s.rowid = r.rowid
                       /\ CastReal(s.balance) = expected /\ s.balance[2] = 2
                 /\ get_account(after, last'.id).err = ""
                 /\ get_account(after, last'.id).balance = last'.value ]_vars

\* a deposit of an amount with 3 fractional digits has succeeded
C9Witness ==
    /\ last.op = "deposit" /\ Succeeded(last) /\ last.amount.e = 3
    /\ \E r \in accounts : Handle(r) = last.id /\ str_to_decimal(r.balance) = last.value

\* C10: every stored account balance and every stored transaction amount has
\* exactly 2 fractional digits.
C10Claim ==
    /\ \A r \in accounts : r.balance[2] = 2
    /\ \A i \in 1..Len(txs) : txs[i].amount[2] = 2

\* C11: after close() and the opening of a new BankLedger on the same file,
\* the account rows (hence the set of accounts and every balance) and the
\* transaction log (hence every history) are what the first instance read
\* just before close.
C11Claim ==
    [][ last'.op = "reopen" => (accounts' = accounts /\ txs' = txs) ]_vars

\* C12: no ledger operation changes or removes a transaction record: after
\* every step each record that existed is still there, at its place and with
\* the same id, parties, amount, type and time, as read and as committed.
C12AppendOnly ==
    [][ /\ Len(txs') >= Len(txs) /\ \A i \in 1..Len(txs) : txs'[i] = txs[i]
        /\ Len(disk_txs') >= Len(disk_txs)
        /\ \A i \in 1..Len(disk_txs) : disk_txs'[i] = disk_txs[i] ]_vars

\* an account that transaction records reference has been deleted
C12Witness ==
    /\ last.op = "delete_account" /\ Succeeded(last)
    /\ \E i \in 1..Len(txs) :
          txs[i].from_account_id = last.id \/ txs[i].to_account_id = last.id

\* C13: get_account_transactions(id) raises AccountNotFoundError only for an
\* id no account ever had.  A record of the log that names an id was written
\* by a call on an account of that id, so when no account has the id now the
\* account was deleted: for an id that a record of the log names and no
\* account has, the call does not raise AccountNotFoundError.
C13Claim ==
    ( /\ last.op = "get_account_transactions"
      /\ \A r \in accounts : Handle(r) # last.id
      /\ \E i \in 1..Len(txs) :
            txs[i].from_account_id = last.id \/ txs[i].to_account_id = last.id )
    => last.result # "AccountNotFoundError"

\* what the claim requires of a transaction of each type (amount in thousandths)
TypeInvariant(from_id, to_id, amount, type) ==
    /\ amount > 0
    /\ type \in {"deposit", "withdrawal", "transfer"}
    /\ type = "deposit" => (from_id = None /\ to_id # None)
    /\ type = "withdrawal" => (from_id # None /\ to_id = None)
    /\ type = "transfer" => (from_id # None /\ to_id # None /\ from_id # to_id)

\* C14: every stored transaction satisfies the invariants of its type, and a
\* Transaction can be constructed exactly when it satisfies them (the
\* constructor raises otherwise, before anything reaches the store).
C14TypeInvariants ==
    /\ \A i \in 1..Len(txs) :
          TypeInvariant(txs[i].from_account_id, txs[i].to_account_id,
                        CastReal(txs[i].amount), txs[i].transaction_type)
    /\ \A from_id, to_id \in IdInputs \cup {None} :
          \A amount \in AmountInputs \cup BalanceInputs :
             \A type \in {"deposit", "withdrawal", "transfer", "refund"} :
                (Transaction_init(from_id, to_id, amount, type) = "")
                   <=> TypeInvariant(from_id, to_id, Mills(amount), type)

\* the log holds a deposit and a transfer
C14Witness ==
    \E i, j \in 1..Len(txs) :
        txs[i].transaction_type = "deposit" /\ txs[j].transaction_type = "transfer"

\* C15: after a successful create_account(name, b) that returned id,
\* get_account(id) returns an account with that id, that name and balance
\* q(b) with 2 fractional digits; get_account_by_name(name) returns an
\* account with that id; and no account that existed before has that id.
C15Claim ==
    [][ (last'.op = "create_account" /\ Succeeded(last')) =>
          LET after == Store(accounts', txs', disk_accounts', disk_txs')
              got == get_account(after, last'.ret)
          IN  /\ got.err = ""
              /\ got.id = last'.ret /\ got.name = last'.name
              /\ Mills(got.balance) = RoundedMills(last'.amount) /\ got.balance.e = 2
              /\ \E r \in get_account_by_name(accounts', last'.name) :
                    row_to_account(r).id = last'.ret
              /\ \A r \in accounts : Handle(r) # last'.ret ]_vars

\* C16: a successful create_account with initial balance > 0 appends exactly
\* one transaction: a deposit without source, to the id returned, whose
\* amount equals the stored balance of the new account; with initial balance
\* 0 it leaves the log as it was.
C16Claim ==
    [][ (last'.op = "create_account" /\ Succeeded(last')) =>
          IF Mills(last'.amount) > 0
          THEN /\ Len(txs') = Len(txs) + 1
               /\ \A i \in 1..Len(txs) : txs'[i] = txs[i]
               /\ LET x == txs'[Len(txs')]
                  IN  /\ x.transaction_type = "deposit"
                      /\ x.from_account_id = None /\ x.to_account_id = last'.ret
                      /\ \E r \in accounts' \ accounts :
                            /\ Handle(r) = last'.ret
                            /\ CastReal(x.amount) = CastReal(r.balance)
          ELSE txs' = txs ]_vars

\* C17: a transfer whose source and destination ids are equal raises the
\* same-account error, whether or not an account has that id and whatever the
\* amount, and leaves the accounts and the transaction log as they were.
C17SameAccount ==
    [][ (last'.op = "transfer" /\ last'.id = last'.id2)
          => (last'.result = "ValueError:same" /\ StoreUnchanged) ]_vars

\* a transfer of a non-positive amount from an id to itself that no account
\* has, after a call that did write, has raised the same-account error
C17Witness ==
    /\ last.op = "transfer" /\ last.id = last.id2 /\ last.result = "ValueError:same"
    /\ Mills(last.amount) <= 0
    /\ \A r \in accounts : Handle(r) # last.id
    /\ Len(txs) > 0

\* no account has the id (neither as the id of its row nor as the value
\* create_account returned for it)
Missing(id) == \A r \in accounts : Handle(r) # id

\* C18: a deposit or withdraw on an id no account has, and a transfer
\* between two different ids of which no account has one, raise
\* AccountNotFoundError, whatever the amount, and leave the accounts and the
\* transaction log as they were.
C18NotFound ==
    [][ ( \/ last'.op \in {"deposit", "withdraw"} /\ Missing(last'.id)
          \/ /\ last'.op = "transfer" /\ last'.id # last'.id2
             /\ (Missing(last'.id) \/ Missing(last'.id2)) )
          => (last'.result = "AccountNotFoundError" /\ StoreUnchanged) ]_vars

\* a transfer from an account that exists to an id no account has has failed
C18Witness ==
    /\ last.op = "transfer" /\ last.result = "AccountNotFoundError"
    /\ get_account_by_id(accounts, last.id) # {} /\ Missing(last.id2)

\* C19: a deposit or withdraw on an existing account, and a transfer between
\* two different existing accounts, with amount <= 0 raise InvalidAmountError
\* and leave the accounts and the transaction log as they were.
C19Claim ==
    [][ ( /\ Mills(last'.amount) <= 0
          /\ \/ last'.op \in {"deposit", "withdraw"} /\ ~Missing(last'.id)
             \/ /\ last'.op = "transfer" /\ last'.id # last'.id2
                /\ ~Missing(last'.id) /\ ~Missing(last'.id2) )
          => (last'.result = "InvalidAmountError" /\ StoreUnchanged) ]_vars

\* C20: a withdraw of a positive amount from an existing account, and a
\* transfer of a positive amount from it to another existing account, raise
\* InsufficientFundsError when the amount exceeds the balance and succeed
\* when it does not (store failures aside); a withdraw of exactly the balance
\* leaves 0.00.
C20Claim ==
    [][ \A r \in accounts :
          ( /\ last'.id = Handle(r) /\ Mills(last'.amount) > 0
            /\ last'.result # "StoreError"
            /\ \/ last'.op = "withdraw"
               \/ last'.op = "transfer" /\ last'.id # last'.id2 /\ ~Missing(last'.id2) )
          => IF Mills(last'.amount) > CastReal(r.balance)
             THEN last'.result = "InsufficientFundsError"
             ELSE /\ last'.result = "ok"
                  /\ (last'.op = "withdraw" /\ Mills(last'.amount) = CastReal(r.balance))
                        => last'.value = ZeroDec ]_vars


\* C21: delete_account is isolated from the concurrent use-cases: no step
\* removes an account row whose stored balance is not zero, and when all
\* threads have returned the total is the initial total plus the successful
\* deposits minus the successful withdrawals (amounts as applied, rounded
\* half-up to 2 digits): no credited amount has left the system otherwise.
C21Removal ==
    \A r \in accounts :
        (\A s \in accounts' : s.rowid # r.rowid) => CastReal(r.balance) = 0
C21Total ==
    AllDone =>
        TotalMills(accounts) =
            TotalMills(SeedRows) + Deposited(RoundedMills) - Withdrawn(RoundedMills)
C21Claim == [][C21Removal]_vars /\ []C21Total


\* C22: list_accounts returns every existing account exactly once, ordered by
\* ascending name, accounts of equal name ordered by ascending id (so that the
\* stored accounts fix the result, whatever the order they were created in).
C22Claim ==
    [][ (last'.op = "list_accounts" /\ Succeeded(last')) =>
          LET o == last'.rows
          IN  /\ {o[i] : i \in 1..Len(o)} = accounts /\ Len(o) = Cardinality(accounts)
              /\ \A i, j \in 1..Len(o) :
                    i < j => \/ NameRank(o[i].name) < NameRank(o[j].name)
                             \/ o[i].name = o[j].name /\ o[i].id < o[j].id ]_vars


\* C23: every successful deposit, withdraw and transfer appends exactly one
\* transaction record and every failed one none; the record of a deposit names
\* the account as destination only, the record of a withdrawal names it as
\* source only, and a transfer writes one record of type transfer naming the
\* source and the destination.
C23OneRecord ==
    [][ last'.op \in Mutating =>
          IF Succeeded(last')
          THEN /\ Len(txs') = Len(txs) + 1
               /\ SubSeq(txs', 1, Len(txs)) = txs
               /\ LET x == txs'[Len(txs')]
                  IN  CASE last'.op = "deposit" ->
                             /\ x.transaction_type = "deposit"
                             /\ x.from_account_id = None /\ x.to_account_id = last'.id
                        [] last'.op = "withdraw" ->
                             /\ x.transaction_type = "withdrawal"
                             /\ x.from_account_id = last'.id /\ x.to_account_id = None
                        [] OTHER ->
                             /\ x.transaction_type = "transfer"
                             /\ x.from_account_id = last'.id /\ x.to_account_id = last'.id2
          ELSE txs' = txs ]_vars

\* a transfer has succeeded and written the second record of the log
C23Witness ==
    /\ last.op = "transfer" /\ Succeeded(last) /\ Len(txs) = 2
    /\ txs[2].transaction_type = "transfer"


\* the amounts of the records of the log that credit the account, minus the
\* amounts of those that debit it, in thousandths
RECURSIVE Audit(_, _)
Audit(log, id) ==
    IF log = <<>> THEN 0
    ELSE LET x == log[Len(log)]
         IN  Audit(SubSeq(log, 1, Len(log) - 1), id)
               + (IF SqlEq(x.to_account_id, id) THEN CastReal(x.amount) ELSE 0)
               - (IF SqlEq(x.from_account_id, id) THEN CastReal(x.amount) ELSE 0)

\* C24: in every reachable state, the stored balance of every account that was
\* created through the ledger equals the sum of the amounts of the recorded
\* transactions that credit it (the opening deposit included) minus the sum of
\* the amounts of those that debit it, whatever the fractional digits of the
\* amounts given.
C24Claim ==
    \A r \in accounts : r.id = None => CastReal(r.balance) = Audit(txs, Handle(r))


Handled(op) == ~broadcast.running /\ last'.op = op

\* C26: every transfer request the standalone API accepts, whatever its from
\* and to ids (the same id twice included) and its positive amount, leaves the
\* sum of the stored balances as it was.
C26Claim ==
    [][ (Handled("api_transfer") /\ Succeeded(last')) =>
          StoredTotal(accounts') = StoredTotal(accounts) ]_vars

\* C27: the random-transaction endpoint of the standalone API never writes a
\* negative balance: from stored accounts none of which is negative (balance 0
\* included), every random choice leaves every balance >= 0.
C27Claim ==
    [][ (Handled("api_simulate") /\ \A r \in accounts : CastReal(r.balance) >= 0) =>
          \A r \in accounts' : CastReal(r.balance) >= 0 ]_vars

\* C29: a client that connects to /ws receives a dashboard_update first; and
\* when the broadcast that follows a successful mutating call returns, the
\* update has been sent to every client that was connected throughout it,
\* also when another client disconnected or a send failed meanwhile.
C29Claim ==
    [][ /\ \A c \in Clients :
              (c \notin Listed /\ c \in {active_connections'[k] : k \in 1..Len(active_connections')})
                 => inbox'[c] = <<get_dashboard_data(Current)>>
        /\ (broadcast.running /\ ~broadcast'.running) =>
              \A c \in broadcast.at_start :
                 (c \in Listed /\ c \notin closed) => c \in broadcast.sent ]_vars

\* the status the claim gives a deposit, withdrawal or transfer request
ExpectedStatus(op, id, id2, amount, rows) ==
    LET has(x) == get_account_by_id(rows, x) # {}
        balance(x) == CastReal((CHOOSE r \in get_account_by_id(rows, x) : TRUE).balance)
    IN  IF id = None \/ (op = "api_transfer" /\ id2 = None) \/ Mills(amount) <= 0 THEN "400"
        ELSE IF ~has(id) \/ (op = "api_transfer" /\ ~has(id2)) THEN "404"
        ELSE IF op # "api_deposit" /\ balance(id) < Mills(amount) THEN "400"
        ELSE "ok"

\* C30: the deposit, withdrawal and transfer endpoints of the standalone API
\* answer 400 to a missing account id or a non-positive amount, 404 to an
\* account that does not exist and 400 to insufficient funds, 500 to nothing
\* but a failure of the store (none occurs here), and a rejected request
\* changes no balance and writes no transaction.
C30Claim ==
    [][ \A op \in {"api_deposit", "api_withdrawal", "api_transfer"} :
          Handled(op) =>
             /\ last'.result = ExpectedStatus(op, last'.id, last'.id2, last'.amount, accounts)
             /\ ~Succeeded(last') => StoreUnchanged ]_vars


\* C28: with the protection triggers installed, after any sequence of direct
\* INSERT, UPDATE and DELETE statements on the two tables no account row has a
\* negative balance and no transaction row an amount <= 0, no statement
\* removes an account row whose balance is not zero, and a statement that is
\* aborted changes nothing.
C28Rows ==
    /\ \A r \in accounts : CastReal(r.balance) >= 0
    /\ \A i \in 1..Len(txs) : CastReal(txs[i].amount) > 0
C28Claim ==
    /\ []C28Rows
    /\ [][ /\ \A r \in accounts :
                (\A s \in accounts' : s.rowid # r.rowid) => CastReal(r.balance) = 0
           /\ ~Succeeded(last') => (accounts' = accounts /\ txs' = txs) ]_vars

====
